---- MODULE Spec2Model ----
(***************************************************************************)
(* eakio: password based file encryption.                                  *)
(*   src/src/crypto.rs  Salt, Crypto (AES-256-GCM engine), incr_nonce      *)
(*   src/src/file.rs    FileCrypt.encrypt / FileCrypt.decrypt, the KELSI   *)
(*                      container                                          *)
(* Files and buffers are sequences of cells.  A cell is either a plain     *)
(* byte [t |-> "b", v |-> 0..255] or one byte of an AEAD output            *)
(* [t |-> "c", sid |-> <<key, nonce, plaintext>>, i |-> index, x |-> d]    *)
(* where d # 0 marks a byte that was altered after sealing.  ring's        *)
(* AES-256-GCM and HKDF are taken as ideal: an output opens only under the *)
(* key and nonce it was sealed with and only if it is complete and         *)
(* unaltered; different (secret, salt) pairs give different keys.          *)
(***************************************************************************)
EXTENDS Integers, Sequences, FiniteSets, TLC

\* ------------------------------------------------------------ constants
MAGIC == <<75, 69, 76, 83, 73>>     \* b"KELSI"
VERSION_1 == 1
VERSION_2 == 2
TAG_LEN == 16                       \* CIPHER.tag_len(), AES_256_GCM
NONCE_LEN == 12                     \* CIPHER.nonce_len(), AES_256_GCM
SALT_LEN == 32                      \* hmac::recommended_key_len(SHA256)

\* 128 * 1024 in the source; scaled down so that files of 0, <BS, k*BS and
\* k*BS+r bytes can be enumerated byte by byte.  It stays >= SALT_LEN -
\* TAG_LEN, so that, as in the source, the working buffer of BLOCK_SIZE +
\* TAG_LEN bytes holds the salt and the size record.
BLOCK_SIZE == 16

\* ------------------------------------------------------------ bounds
MaxBlocks == 2          \* plaintexts have 0 .. MaxBlocks*BLOCK_SIZE+1 bytes
MaxIncr == 600          \* calls of incr_nonce / Crypto.encrypt in SpecNonce
MaxBufs == 3            \* buffers sealed by one engine in SpecCrypto

MaxPlainLen == MaxBlocks * BLOCK_SIZE + 1

\* ------------------------------------------------------------ cells
Byte(b) == [t |-> "b", v |-> b]
Bytes(s) == [i \in 1..Len(s) |-> Byte(s[i])]
IsByte(c, b) == c.t = "b" /\ c.v = b
Zeros(n) == [i \in 1..n |-> 0]

Min(a, b) == IF a < b THEN a ELSE b

\* buf[..Len(data)] = data, the rest of buf left as it is
Overwrite(buf, data) ==
    [i \in 1..Len(buf) |-> IF i <= Len(data) THEN data[i] ELSE buf[i]]

\* ------------------------------------------------------------ crypto.rs
\* for byte in nonce.iter_mut() { overflowing_add(1); if !overflow {break} }
RECURSIVE IncrFrom(_, _)
IncrFrom(nonce, i) ==
    IF i > Len(nonce) THEN nonce
    ELSE LET sum == (nonce[i] + 1) % 256
             overflow == nonce[i] + 1 > 255
         IN  IF overflow
             THEN IncrFrom([nonce EXCEPT ![i] = sum], i + 1)
             ELSE [nonce EXCEPT ![i] = sum]

\* an increment that drops the carry
incr_nonce_nocarry(nonce) ==
    IF Len(nonce) = 0 THEN nonce
    ELSE [nonce EXCEPT ![1] = (nonce[1] + 1) % 256]

incr_nonce(nonce) == IncrFrom(nonce, 1)

\* a key derivation that leaves the secret out
DeriveKeyNoSecret(s, salt) == <<"", salt>>

\* hkdf::extract_and_expand(salt, secret, INFO_KEY): an ideal KDF, the key
\* is determined by, and determines, the pair (secret, salt bytes).
DeriveKey(s, salt) == <<s, salt>>

\* Crypto::new
CryptoNew(secret, salt) ==
    [key |-> DeriveKey(secret, salt),
     open_nonce |-> Zeros(NONCE_LEN),
     seal_nonce |-> Zeros(NONCE_LEN)]

\* aead::seal_in_place(key, nonce, ad = [], in_out, tag_len): the in_len
\* plaintext bytes become in_len + TAG_LEN output bytes.
seal_in_place(key, nonce, pt) ==
    [i \in 1..(Len(pt) + TAG_LEN) |->
        [t |-> "c", sid |-> <<key, nonce, pt>>, i |-> i, x |-> 0]]

\* aead::open_in_place(key, nonce, ad = [], 0, in_out): Ok(plaintext) iff
\* in_out is one whole unaltered output of seal_in_place under key and nonce.
open_ok(key, nonce, inout) ==
    /\ Len(inout) >= TAG_LEN
    /\ inout[1].t = "c"
    /\ LET sid == inout[1].sid
       IN  /\ sid[1] = key
           /\ sid[2] = nonce
           /\ Len(sid[3]) + TAG_LEN = Len(inout)
           /\ \A i \in 1..Len(inout) :
                 /\ inout[i].t = "c"
                 /\ inout[i].x = 0
                 /\ inout[i].i = i
                 /\ inout[i].sid = sid

open_plain(inout) == inout[1].sid[3]

\* an encrypt that advances the seal nonce before it looks at the buffer
CryptoEncryptNonceFirst(c, inout, in_len) ==
    LET out_len == in_len + TAG_LEN
        c1 == [c EXCEPT !.seal_nonce = incr_nonce(c.seal_nonce)]
    IN  IF Len(inout) < out_len
        THEN [ok |-> FALSE, err |-> "SealBufferTooSmall", len |-> out_len,
              buf |-> inout, crypto |-> c1]
        ELSE [ok |-> TRUE, err |-> "", len |-> out_len,
              buf |-> Overwrite(inout,
                        seal_in_place(c.key, c.seal_nonce,
                                      SubSeq(inout, 1, in_len))),
              crypto |-> c1]

\* an encrypt that clears the buffer behind the tag
CryptoEncryptClearsTail(c, inout, in_len) ==
    LET out_len == in_len + TAG_LEN
    IN  IF Len(inout) < out_len
        THEN [ok |-> FALSE, err |-> "SealBufferTooSmall", len |-> out_len,
              buf |-> inout, crypto |-> c]
        ELSE [ok |-> TRUE, err |-> "", len |-> out_len,
              buf |-> Overwrite([i \in 1..Len(inout) |-> [t |-> "b", v |-> 0]],
                        seal_in_place(c.key, c.seal_nonce,
                                      SubSeq(inout, 1, in_len))),
              crypto |-> [c EXCEPT !.seal_nonce = incr_nonce(c.seal_nonce)]]

\* Crypto::encrypt(&mut self, inout, in_len) -> Result<usize>
CryptoEncrypt(c, inout, in_len) ==
    LET out_len == in_len + TAG_LEN
    IN  IF Len(inout) < out_len
        THEN [ok |-> FALSE, err |-> "SealBufferTooSmall", len |-> out_len,
              buf |-> inout, crypto |-> c]
        ELSE [ok |-> TRUE, err |-> "", len |-> out_len,
              buf |-> Overwrite(inout,
                        seal_in_place(c.key, c.seal_nonce,
                                      SubSeq(inout, 1, in_len))),
              crypto |-> [c EXCEPT !.seal_nonce = incr_nonce(c.seal_nonce)]]

\* a decrypt that opens under whatever nonce the buffer was sealed with
CryptoDecryptAnyNonce(c, inout) ==
    IF Len(inout) >= TAG_LEN /\ inout[1].t = "c"
       /\ open_ok(c.key, inout[1].sid[2], inout)
    THEN [ok |-> TRUE, err |-> "", len |-> Len(inout) - TAG_LEN,
          buf |-> Overwrite(inout, open_plain(inout)),
          crypto |-> [c EXCEPT !.open_nonce = incr_nonce(c.open_nonce)]]
    ELSE [ok |-> FALSE, err |-> "Open", len |-> 0, buf |-> inout,
          crypto |-> c]

\* a decrypt that advances the open nonce whether or not the buffer opened
CryptoDecryptAlwaysIncr(c, inout) ==
    IF open_ok(c.key, c.open_nonce, inout)
    THEN [ok |-> TRUE, err |-> "", len |-> Len(inout) - TAG_LEN,
          buf |-> Overwrite(inout, open_plain(inout)),
          crypto |-> [c EXCEPT !.open_nonce = incr_nonce(c.open_nonce)]]
    ELSE [ok |-> FALSE, err |-> "Open", len |-> 0, buf |-> inout,
          crypto |-> [c EXCEPT !.open_nonce = incr_nonce(c.open_nonce)]]

\* Crypto::decrypt(&mut self, inout) -> Result<usize>.  After a failed open
\* the content of inout is left to ring; no caller reads it.
CryptoDecrypt(c, inout) ==
    IF open_ok(c.key, c.open_nonce, inout)
    THEN [ok |-> TRUE, err |-> "", len |-> Len(inout) - TAG_LEN,
          buf |-> Overwrite(inout, open_plain(inout)),
          crypto |-> [c EXCEPT !.open_nonce = incr_nonce(c.open_nonce)]]
    ELSE [ok |-> FALSE, err |-> "Open", len |-> 0, buf |-> inout,
          crypto |-> c]

\* ------------------------------------------------------------ encodings
\* the n low bytes of k, least significant first
RECURSIVE LEBytes(_, _)
LEBytes(k, n) ==
    IF n = 0 THEN <<>> ELSE <<k % 256>> \o LEBytes(k \div 256, n - 1)

\* byteorder BigEndian::write_u64
WriteU64BE(k) ==
    LET le == LEBytes(k, 8) IN [i \in 1..8 |-> le[9 - i]]

\* byteorder read_u64::<BigEndian> of 8 plain bytes
RECURSIVE ReadBE(_, _)
ReadBE(cells, n) ==
    IF n = 0 THEN 0 ELSE ReadBE(cells, n - 1) * 256 + cells[n].v

ReadU64BE(cells) == ReadBE(cells, 8)

VARIABLES
    \* SpecNonce
    mode, nonce, calls, engine,
    \* SpecCrypto
    crypto1, bufs, last,
    \* Spec: one FileCrypt call at a time
    pc,          \* where the running call is
    secret,      \* FileCrypt.secret
    buffer,      \* FileCrypt.buffer
    crypto,      \* the call's Crypto, NoCrypto before Crypto::new
    src,         \* the call's source file
    rpos,        \* bytes the reader has consumed
    size,        \* the local `size`
    dest,        \* the call's destination file
    result,      \* "" while running, then "ok" or the error
    plain,       \* the plaintext that was encrypted
    enc_secret,  \* the secret it was encrypted with
    container,   \* the container encrypt produced
    dest_size,   \* the local `dest_size` of encrypt
    frames,      \* lengths of the body frames encrypt wrote
    tamper,      \* what was done to the container before decrypt
    ncalls,      \* calls this FileCrypt has served before the running one
    args,        \* cli.rs Args: flag_skip, flag_overwrite, flag_dryrun, ...
    srcs,        \* the files list_src_files finds, in order
    tasks,       \* Vec<Task> of build_tasks
    fs,          \* the file system: path -> is there a regular file, whose
    tk,          \* per task: where its run_task stands, and what it did
    cache,       \* MsQueue<TaskRuner> of parallel_run
    mainpc,      \* where main stands
    exit_code,   \* exit status of the process
    env          \* whether another process has removed a file

fvars == <<pc, secret, buffer, crypto, src, rpos, size, dest, result, plain,
           enc_secret, container, dest_size, frames, tamper, ncalls>>

NoCrypto == [key |-> <<>>, open_nonce |-> <<>>, seal_nonce |-> <<>>]

tvars == <<args, srcs, tasks, fs, tk, cache, mainpc, exit_code, env>>

\* the variables of main when no command is modelled
TaskIdle ==
    /\ args = <<>> /\ srcs = <<>> /\ tasks = <<>> /\ fs = <<>> /\ tk = <<>>
    /\ cache = <<>> /\ mainpc = "idle" /\ exit_code = 0 /\ env = FALSE

\* the file-level variables when no FileCrypt call is modelled
FileIdle ==
    /\ pc = "idle" /\ secret = "" /\ buffer = <<>> /\ crypto = NoCrypto
    /\ src = <<>> /\ rpos = 0 /\ size = 0 /\ dest = <<>> /\ result = ""
    /\ plain = <<>> /\ enc_secret = "" /\ container = <<>> /\ dest_size = 0
    /\ frames = <<>> /\ tamper = [kind |-> "none"] /\ ncalls = 0

\* ============================================================ SpecNonce
\* test_incr_nonce: a nonce of n bytes, all zero, incremented again and
\* again; and a freshly constructed engine sealing again and again.
NonceLens == {1, 2, 4, NONCE_LEN}
TestSecret == "k"
TestSalt == Zeros(SALT_LEN)
SealBuf == Bytes(Zeros(TAG_LEN + 1))

nvars == <<mode, nonce, calls, engine>>
cvars == <<crypto1, bufs, last>>

InitNonce ==
    /\ mode \in {"raw", "engine"}
    /\ \E n \in NonceLens : nonce = Zeros(n)
    /\ mode = "engine" => nonce = Zeros(1)
    /\ calls = 0
    /\ engine = CryptoNew(TestSecret, TestSalt)
    /\ crypto1 = engine /\ bufs = <<>> /\ last = [op |-> "none"]
    /\ FileIdle
    /\ TaskIdle

IncrNonce ==
    /\ mode = "raw"
    /\ calls < MaxIncr
    /\ nonce' = incr_nonce(nonce)
    /\ calls' = calls + 1
    /\ UNCHANGED <<mode, engine, cvars, fvars, tvars>>

\* crypto.encrypt(&mut buf, in_len) on a buffer of TAG_LEN + 1 bytes
SealCall ==
    /\ mode = "engine"
    /\ calls < MaxIncr
    /\ \E in_len \in 0..2 :
          LET r == CryptoEncrypt(engine, SealBuf, in_len)
          IN  /\ engine' = r.crypto
              /\ calls' = IF r.ok THEN calls + 1 ELSE calls
    /\ UNCHANGED <<mode, nonce, cvars, fvars, tvars>>

NextNonce == IncrNonce \/ SealCall

SpecNonce == InitNonce /\ [][NextNonce]_<<nvars, cvars, fvars, tvars>>

\* C9: after K calls of incr_nonce on an all-zero nonce of n bytes the nonce
\* is K mod 2^(8n) written little-endian (carry from byte 0 upward, all-0xFF
\* wraps to all-zero); after K successful Crypto.encrypt calls on a fresh
\* engine the seal nonce is K written little-endian.
C9_NonceIsCallCount ==
    /\ mode = "raw" => nonce = LEBytes(calls, Len(nonce))
    /\ mode = "engine" =>
          /\ engine.seal_nonce = LEBytes(calls, NONCE_LEN)
          /\ engine.open_nonce = Zeros(NONCE_LEN)

\* the one-byte nonce has wrapped from 0xFF to all-zero
C9_Witness ==
    mode = "raw" /\ Len(nonce) = 1 /\ calls = 256 /\ nonce = <<0>>

\* ============================================================ SpecCrypto
\* test_crypto_multi_buf: one engine seals buffers one after the other and
\* is then presented sealed buffers in any order.
EngineBufLen == TAG_LEN + 2
EngineFills == {0, 2}

InitCrypto ==
    /\ crypto1 = CryptoNew(TestSecret, TestSalt)
    /\ bufs = <<>>
    /\ last = [op |-> "none"]
    /\ mode = "crypto" /\ nonce = <<>> /\ calls = 0 /\ engine = crypto1
    /\ FileIdle
    /\ TaskIdle

\* let mut buf = [fill; N]; crypto.encrypt(&mut buf[..], plain_len)
EngineEncrypt ==
    /\ Len(bufs) < MaxBufs
    /\ \E fill \in EngineFills, plain_len \in 0..(EngineBufLen - TAG_LEN + 1) :
          LET buf == Bytes([i \in 1..EngineBufLen |-> fill])
              r == CryptoEncrypt(crypto1, buf, plain_len)
          IN  /\ crypto1' = r.crypto
              /\ bufs' = IF r.ok
                         THEN Append(bufs, [buf |-> r.buf, out_len |-> r.len,
                                            fill |-> fill,
                                            plain_len |-> plain_len,
                                            nonce |-> crypto1.seal_nonce])
                         ELSE bufs
              /\ last' = [op |-> "encrypt", ok |-> r.ok, err |-> r.err,
                          len |-> r.len, in_len |-> plain_len,
                          before |-> crypto1, buf_before |-> buf,
                          buf_after |-> r.buf]
    /\ UNCHANGED <<nvars, fvars, tvars>>

\* crypto.decrypt(&mut buf[..out_len]) on the bytes of the j-th sealed buffer
EngineDecrypt ==
    /\ \E j \in 1..Len(bufs) :
          LET r == CryptoDecrypt(crypto1, SubSeq(bufs[j].buf, 1, bufs[j].out_len))
          IN  /\ crypto1' = r.crypto
              /\ last' = [op |-> "decrypt", ok |-> r.ok, err |-> r.err,
                          len |-> r.len, j |-> j, before |-> crypto1,
                          out |-> IF r.ok THEN SubSeq(r.buf, 1, r.len)
                                  ELSE <<>>]
    /\ UNCHANGED <<bufs, nvars, fvars, tvars>>

NextCrypto == EngineEncrypt \/ EngineDecrypt

SpecCrypto == InitCrypto /\ [][NextCrypto]_<<nvars, cvars, fvars, tvars>>

\* C10: a buffer sealed when the seal nonce was i opens only when the open
\* nonce is i; out of order it fails with Open, in sealing order it opens
\* and gives back its plaintext.
C10_OrderAuthenticated ==
    last.op = "decrypt" =>
        /\ last.ok <=> bufs[last.j].nonce = last.before.open_nonce
        /\ last.ok =>
              /\ last.len = bufs[last.j].plain_len
              /\ last.out = Bytes([i \in 1..bufs[last.j].plain_len |->
                                     bufs[last.j].fill])
        /\ ~last.ok => last.err = "Open"

\* two buffers were opened in sealing order, then the first was presented
\* again and refused
C10_Witness ==
    /\ last.op = "decrypt" /\ ~last.ok /\ last.j = 1
    /\ crypto1.open_nonce = LEBytes(2, NONCE_LEN)

\* a nonce read as a little-endian number
RECURSIVE LEValue(_, _)
LEValue(n, i) == IF i > Len(n) THEN 0 ELSE n[i] + 256 * LEValue(n, i + 1)

\* C11: Crypto.encrypt on a buffer shorter than in_len + 16 fails with
\* SealBufferTooSmall(in_len + 16) and leaves the buffer, the seal nonce and
\* the open nonce as they were.
C11_SealBufferTooSmall ==
    (last.op = "encrypt" /\ Len(last.buf_before) < last.in_len + 16) =>
        /\ ~last.ok
        /\ last.err = "SealBufferTooSmall"
        /\ last.len = last.in_len + 16
        /\ last.buf_after = last.buf_before
        /\ crypto1.seal_nonce = last.before.seal_nonce
        /\ crypto1.open_nonce = last.before.open_nonce

\* a too long in_len was refused by an engine that had sealed before
C11_Witness ==
    /\ last.op = "encrypt" /\ ~last.ok
    /\ last.in_len = EngineBufLen - TAG_LEN + 1
    /\ Len(bufs) = 1
    /\ crypto1.seal_nonce = LEBytes(1, NONCE_LEN)

\* C12: Crypto.decrypt advances the open nonce by exactly one iff it
\* succeeds, and then returns len - 16; on failure it returns Open and
\* leaves the open nonce, so the buffer that is next in sealing order still
\* opens on the same engine.
C12_OpenNonceAdvancesOnSuccessOnly ==
    last.op = "decrypt" =>
        /\ crypto1.seal_nonce = last.before.seal_nonce
        /\ last.ok =>
              /\ LEValue(crypto1.open_nonce, 1)
                    = LEValue(last.before.open_nonce, 1) + 1
              /\ last.len = bufs[last.j].out_len - 16
        /\ ~last.ok =>
              /\ last.err = "Open"
              /\ crypto1.open_nonce = last.before.open_nonce
              /\ \A j \in 1..Len(bufs) :
                    bufs[j].nonce = crypto1.open_nonce =>
                        CryptoDecrypt(crypto1,
                            SubSeq(bufs[j].buf, 1, bufs[j].out_len)).ok

\* the second buffer was refused while the first is still to be opened
C12_Witness ==
    /\ last.op = "decrypt" /\ ~last.ok /\ last.j = 2
    /\ crypto1.open_nonce = Zeros(NONCE_LEN)
    /\ bufs[1].nonce = crypto1.open_nonce

ReadExact(f, pos, n) ==
    IF pos + n <= Len(f)
    THEN [ok |-> TRUE, data |-> SubSeq(f, pos + 1, pos + n), pos |-> pos + n]
    ELSE [ok |-> FALSE, data |-> SubSeq(f, pos + 1, Len(f)), pos |-> Len(f)]

\* the block count taken as in_size / BLOCK_SIZE + 1
crypto_data_size_plus_one(in_size) ==
    in_size + (in_size \div BLOCK_SIZE + 1) * TAG_LEN

\* fn crypto_data_size(in_size)
crypto_data_size(in_size) ==
    LET nblock == IF in_size = 0 THEN 0
                  ELSE (in_size - 1) \div BLOCK_SIZE + 1
        tag_size == nblock * TAG_LEN
    IN  in_size + tag_size

SIZE_LEN == 8 + TAG_LEN
V1_HEADER_LEN == Len(MAGIC) + 1 + SALT_LEN
V2_HEADER_LEN == Len(MAGIC) + 1 + SALT_LEN + 8 + TAG_LEN

\* ------------------------------------------------------------ inputs
Secrets == {"hunter2", "Hunter2"}
SaltSeeds == {17, 99}
\* what SystemRandom may fill the salt with
Salts == {Bytes([i \in 1..SALT_LEN |-> (s + i) % 256]) : s \in SaltSeeds}
PlainSeeds == {104}
PlainLens ==
    {0, 1} \cup {k * BLOCK_SIZE + d : k \in 1..MaxBlocks, d \in {-1, 0, 1}}
Plaintexts ==
    {Bytes([i \in 1..n |-> (a + i) % 256]) : n \in PlainLens, a \in PlainSeeds}

\* FileCrypt::new(secret)
FileCryptNew(s) == [secret |-> s, buffer |-> Bytes(Zeros(BLOCK_SIZE + TAG_LEN))]

Init ==
    /\ pc = "enc_start"
    /\ plain \in Plaintexts
    /\ src = plain
    /\ \E s \in Secrets :
          /\ secret = FileCryptNew(s).secret
          /\ buffer = FileCryptNew(s).buffer
          /\ enc_secret = s
    /\ crypto = NoCrypto /\ rpos = 0 /\ size = 0 /\ dest = <<>> /\ result = ""
    /\ container = <<>> /\ dest_size = 0 /\ frames = <<>>
    /\ tamper = [kind |-> "none"]
    /\ ncalls = 0
    /\ mode = "file" /\ nonce = <<>> /\ calls = 0 /\ engine = NoCrypto
    /\ crypto1 = NoCrypto /\ bufs = <<>> /\ last = [op |-> "none"]
    /\ TaskIdle

\* ------------------------------------------------------------ encrypt
\* the call re-keys the engine left by the previous call, counters kept
EncryptBeginKeepsEngine ==
    /\ pc = "enc_start"
    /\ \E salt \in Salts :
          LET c0 == IF crypto = NoCrypto THEN CryptoNew(secret, salt)
                    ELSE [crypto EXCEPT !.key = DeriveKey(secret, salt)]
              sz == Len(src)
              size_start == Len(MAGIC) + 1 + SALT_LEN
              size_len == 8 + TAG_LEN
              dsize == size_start + size_len + crypto_data_size(sz)
              buf1 == Overwrite(buffer, Bytes(WriteU64BE(dsize)))
              e == CryptoEncrypt(c0, buf1, 8)
          IN  /\ size' = sz
              /\ dest_size' = dsize
              /\ buffer' = e.buf
              /\ crypto' = e.crypto
              /\ IF e.ok
                 THEN /\ dest' = Bytes(MAGIC) \o <<Byte(VERSION_2)>> \o salt
                                   \o SubSeq(e.buf, 1, e.len)
                      /\ pc' = "enc_loop"
                      /\ result' = ""
                 ELSE /\ dest' = Bytes(MAGIC) \o <<Byte(VERSION_2)>> \o salt
                      /\ pc' = "enc_done"
                      /\ result' = e.err
    /\ rpos' = 0
    /\ frames' = <<>>
    /\ UNCHANGED <<secret, src, plain, enc_secret, container, tamper,
                   nvars, cvars, ncalls, tvars>>

\* FileCrypt::encrypt, up to the loop: salt, engine, header, size record
EncryptBegin ==
    /\ pc = "enc_start"
    /\ \E salt \in Salts :
          LET c0 == CryptoNew(secret, salt)
              sz == Len(src)
              size_start == Len(MAGIC) + 1 + SALT_LEN
              size_len == 8 + TAG_LEN
              dsize == size_start + size_len + crypto_data_size(sz)
              buf1 == Overwrite(buffer, Bytes(WriteU64BE(dsize)))
              e == CryptoEncrypt(c0, buf1, 8)
          IN  /\ size' = sz
              /\ dest_size' = dsize
              /\ buffer' = e.buf
              /\ crypto' = e.crypto
              /\ IF e.ok
                 THEN /\ dest' = Bytes(MAGIC) \o <<Byte(VERSION_2)>> \o salt
                                   \o SubSeq(e.buf, 1, e.len)
                      /\ pc' = "enc_loop"
                      /\ result' = ""
                 ELSE /\ dest' = Bytes(MAGIC) \o <<Byte(VERSION_2)>> \o salt
                      /\ pc' = "enc_done"
                      /\ result' = e.err
    /\ rpos' = 0
    /\ frames' = <<>>
    /\ UNCHANGED <<secret, src, plain, enc_secret, container, tamper,
                   nvars, cvars, ncalls, tvars>>

\* one turn of the loop, read_exact of a whole block succeeded
EncryptBlock ==
    /\ pc = "enc_loop"
    /\ LET r == ReadExact(src, rpos, BLOCK_SIZE)
           buf1 == Overwrite(buffer, r.data)
           e == CryptoEncrypt(crypto, buf1, BLOCK_SIZE)
       IN  /\ r.ok
           /\ rpos' = r.pos
           /\ buffer' = e.buf
           /\ crypto' = e.crypto
           /\ IF e.ok
              THEN /\ dest' = dest \o SubSeq(e.buf, 1, e.len)
                   /\ frames' = Append(frames, e.len)
                   /\ size' = size - BLOCK_SIZE
                   /\ UNCHANGED <<pc, result>>
              ELSE /\ pc' = "enc_done" /\ result' = e.err
                   /\ UNCHANGED <<dest, frames, size>>
    /\ UNCHANGED <<secret, src, plain, enc_secret, container, dest_size,
                   tamper, nvars, cvars, ncalls, tvars>>

\* the last turn with the `if size != 0` test left out
EncryptLastAlways ==
    /\ pc = "enc_loop"
    /\ LET r == ReadExact(src, rpos, BLOCK_SIZE)
           buf1 == Overwrite(buffer, r.data)
           e == CryptoEncrypt(crypto, buf1, size)
       IN  /\ ~r.ok
           /\ rpos' = r.pos
           /\ buffer' = e.buf
           /\ crypto' = e.crypto
           /\ dest' = dest \o SubSeq(e.buf, 1, e.len)
           /\ frames' = Append(frames, e.len)
           /\ container' = dest'
           /\ pc' = "enc_done" /\ result' = "ok"
    /\ UNCHANGED <<secret, src, size, plain, enc_secret, dest_size, tamper,
                   nvars, cvars, ncalls, tvars>>

\* the last turn of the loop, read_exact met the end of the file
EncryptLast ==
    /\ pc = "enc_loop"
    /\ LET r == ReadExact(src, rpos, BLOCK_SIZE)
           buf1 == Overwrite(buffer, r.data)
           e == CryptoEncrypt(crypto, buf1, size)
       IN  /\ ~r.ok
           /\ rpos' = r.pos
           /\ IF size # 0
              THEN /\ buffer' = e.buf
                   /\ crypto' = e.crypto
                   /\ IF e.ok
                      THEN /\ dest' = dest \o SubSeq(e.buf, 1, e.len)
                           /\ frames' = Append(frames, e.len)
                           /\ result' = "ok"
                      ELSE /\ result' = e.err
                           /\ UNCHANGED <<dest, frames>>
              ELSE /\ buffer' = buf1
                   /\ result' = "ok"
                   /\ UNCHANGED <<crypto, dest, frames>>
           /\ container' = dest'
           /\ pc' = "enc_done"
    /\ UNCHANGED <<secret, src, size, plain, enc_secret, dest_size, tamper,
                   nvars, cvars, ncalls, tvars>>

\* ------------------------------------------------------------ the input
\* What decrypt is given: the container as written, or the container after
\* someone cut it, altered one byte of it, rewrote its VERSION byte to 0x01
\* (and cut it), or exchanged two of its body frames; or the container a
\* version 1 writer made of the same plaintext with the same secret and
\* salt, whole or without its final frame.
VERSION_POS == Len(MAGIC) + 1

AlterCell(c, v) ==
    IF c.t = "b" THEN Byte(v) ELSE [c EXCEPT !.x = 1]

\* the values one byte may be altered to
AlterValues(C, p) ==
    IF C[p].t = "c" THEN {0}
    ELSE IF p = VERSION_POS THEN {VERSION_1, 3}
    ELSE {(C[p].v + 1) % 256}

RECURSIVE SumTo(_, _)
SumTo(lens, n) == IF n = 0 THEN 0 ELSE SumTo(lens, n - 1) + lens[n]

\* body frame j of container C whose frames have lengths lens
FrameOf(C, lens, j) ==
    SubSeq(C, V2_HEADER_LEN + SumTo(lens, j - 1) + 1,
              V2_HEADER_LEN + SumTo(lens, j))

RECURSIVE ConcatFrames(_, _, _, _)
ConcatFrames(C, lens, order, n) ==
    IF n = 0 THEN <<>>
    ELSE ConcatFrames(C, lens, order, n - 1) \o FrameOf(C, lens, order[n])

SwapFrames(C, lens, a, b) ==
    LET order == [j \in 1..Len(lens) |->
                    IF j = a THEN b ELSE IF j = b THEN a ELSE j]
    IN  SubSeq(C, 1, V2_HEADER_LEN) \o ConcatFrames(C, lens, order, Len(lens))

\* The body of a VERSION 0x01 container: the plaintext in blocks of
\* BLOCK_SIZE, the last one short, each sealed in turn by an engine that
\* starts at nonce 0 (no size record is sealed before them).
RECURSIVE V1Body(_, _, _)
V1Body(c, buf, data) ==
    IF Len(data) = 0 THEN <<>>
    ELSE LET n == Min(BLOCK_SIZE, Len(data))
             e == CryptoEncrypt(c, Overwrite(buf, SubSeq(data, 1, n)), n)
         IN  SubSeq(e.buf, 1, e.len)
                \o V1Body(e.crypto, e.buf, SubSeq(data, n + 1, Len(data)))

\* MAGIC, VERSION 0x01, SALT, body: what a writer of version 1 made of data
V1Container(sec, salt, data) ==
    Bytes(MAGIC) \o <<Byte(VERSION_1)>> \o salt
        \o V1Body(CryptoNew(sec, salt), FileCryptNew(sec).buffer, data)

\* the SALT field of container C
SaltOf(C) == SubSeq(C, VERSION_POS + 1, V1_HEADER_LEN)

\* pairs of header positions altered together: a byte of MAGIC with
\* VERSION, VERSION with the first byte of SALT or of SIZE_REC
AlterPairs ==
    {<<p, VERSION_POS>> : p \in 1..Len(MAGIC)}
    \cup {<<VERSION_POS, VERSION_POS + 1>>, <<VERSION_POS, V1_HEADER_LEN + 1>>}

Tampers(C, lens) ==
    {[kind |-> "none"]}
    \cup {[kind |-> "trunc", k |-> k] : k \in 0..(Len(C) - 1)}
    \cup UNION {{[kind |-> "alter", p |-> p, v |-> v] : v \in AlterValues(C, p)}
                   : p \in 1..Len(C)}
    \cup {[kind |-> "v1", k |-> k] : k \in VERSION_POS..Len(C)}
    \cup UNION {{[kind |-> "alter2", p |-> pq[1], v |-> v, q |-> pq[2], w |-> w] :
                    v \in AlterValues(C, pq[1]) \ {VERSION_1},
                    w \in AlterValues(C, pq[2]) \ {VERSION_1}}
                   : pq \in AlterPairs}
    \cup {[kind |-> "asv1", k |-> k] : k \in 0..Min(1, Len(lens))}
    \cup {t \in {[kind |-> "swap", a |-> a, b |-> b] :
                     a \in 1..Len(lens), b \in 1..Len(lens)} : t.a < t.b}

Tampered(C, lens, t) ==
    CASE t.kind = "none" -> C
      [] t.kind = "trunc" -> SubSeq(C, 1, t.k)
      [] t.kind = "alter" -> [C EXCEPT ![t.p] = AlterCell(C[t.p], t.v)]
      [] t.kind = "v1" ->
            SubSeq([C EXCEPT ![VERSION_POS] = Byte(VERSION_1)], 1, t.k)
      [] t.kind = "swap" -> SwapFrames(C, lens, t.a, t.b)
      [] t.kind = "asv1" ->
            LET full == V1Container(enc_secret, SaltOf(C), plain)
                cut == IF t.k = 0 THEN 0 ELSE lens[Len(lens)]
            IN  SubSeq(full, 1, Len(full) - cut)
      [] t.kind = "alter2" ->
            [C EXCEPT ![t.p] = AlterCell(C[t.p], t.v),
                      ![t.q] = AlterCell(C[t.q], t.w)]

\* The container reaches a FileCrypt that is to decrypt it: the same
\* FileCrypt when the secret is the same, a new one for another secret.
Present ==
    /\ pc = "enc_done"
    /\ result = "ok"
    /\ ncalls = 0
    /\ ncalls' = ncalls + 1
    /\ \E t \in Tampers(container, frames), s \in Secrets :
          /\ (s # enc_secret => t.kind = "none")
          /\ tamper' = t
          /\ src' = Tampered(container, frames, t)
          /\ secret' = s
          /\ buffer' = IF s = secret THEN buffer ELSE FileCryptNew(s).buffer
    /\ pc' = "dec_start"
    /\ crypto' = NoCrypto /\ rpos' = 0 /\ size' = 0 /\ dest' = <<>>
    /\ result' = ""
    /\ UNCHANGED <<plain, enc_secret, container, dest_size, frames,
                   nvars, cvars, tvars>>

\* The same FileCrypt is given another file to encrypt (TaskRuner keeps one
\* FileCrypt for all its tasks).  The locals of the finished call are dead;
\* crypto keeps showing the engine of that call until the next one is made.
EncryptAgain ==
    /\ pc = "enc_done"
    /\ result = "ok"
    /\ ncalls = 0
    /\ ncalls' = ncalls + 1
    /\ plain' \in Plaintexts
    /\ src' = plain'
    /\ pc' = "enc_start"
    /\ UNCHANGED <<secret, buffer, crypto, rpos, size, dest, result,
                   enc_secret, container, dest_size, frames, tamper,
                   nvars, cvars, tvars>>

\* ------------------------------------------------------------ decrypt
\* a size check that accepts every length
SizeMatchesAlways(len, sz) == TRUE

\* a size check that lets a file shorter than recorded pass
SizeMatchesAtLeast(len, sz) == sz <= len

\* `len != size as u64` of the size check, negated
SizeMatches(len, sz) == len = sz

\* the header read with VERSION examined before MAGIC
DecryptHeaderVersionFirst(f, sec, buf) ==
    LET fail(e, b, c, pos) ==
            [result |-> e, buffer |-> b, crypto |-> c, rpos |-> pos,
             size |-> Len(f)]
        r1 == ReadExact(f, 0, Len(MAGIC))
        b1 == Overwrite(buf, r1.data)
        r2 == ReadExact(f, r1.pos, 1)
        version == r2.data[1]
        r3 == ReadExact(f, r2.pos, SALT_LEN)
        b3 == Overwrite(b1, r3.data)
        salt == SubSeq(b3, 1, SALT_LEN)
        c0 == CryptoNew(sec, salt)
        size_len == 8 + TAG_LEN
        r4 == ReadExact(f, r3.pos, size_len)
        b4 == Overwrite(b3, r4.data)
        d == CryptoDecrypt(c0, SubSeq(b4, 1, size_len))
        b5 == Overwrite(b4, d.buf)
        len == ReadU64BE(SubSeq(b5, 1, 8))
    IN  IF ~r1.ok THEN fail("UnexpectedEof", b1, NoCrypto, r1.pos)
        ELSE IF ~r2.ok THEN fail("UnexpectedEof", b1, NoCrypto, r2.pos)
        ELSE IF ~IsByte(version, VERSION_1) /\ ~IsByte(version, VERSION_2)
        THEN fail("version not support", b1, NoCrypto, r2.pos)
        ELSE IF \E i \in 1..Len(MAGIC) : ~IsByte(b1[i], MAGIC[i])
        THEN fail("magic not match", b1, NoCrypto, r1.pos)
        ELSE IF ~r3.ok THEN fail("UnexpectedEof", b3, NoCrypto, r3.pos)
        ELSE IF IsByte(version, VERSION_2)
        THEN IF ~r4.ok THEN fail("UnexpectedEof", b4, c0, r4.pos)
             ELSE IF ~d.ok THEN fail("Open", b4, c0, r4.pos)
             ELSE IF ~SizeMatches(len, Len(f))
             THEN fail("file size not match", b5, d.crypto, r4.pos)
             ELSE [result |-> "", buffer |-> b5, crypto |-> d.crypto,
                   rpos |-> r4.pos, size |-> Len(f) - V2_HEADER_LEN]
        ELSE [result |-> "", buffer |-> b3, crypto |-> c0, rpos |-> r3.pos,
              size |-> Len(f) - V1_HEADER_LEN]

\* the header read by a reader that knows VERSION 0x02 only
DecryptHeaderV2Only(f, sec, buf) ==
    LET fail(e, b, c, pos) ==
            [result |-> e, buffer |-> b, crypto |-> c, rpos |-> pos,
             size |-> Len(f)]
        r1 == ReadExact(f, 0, Len(MAGIC))
        b1 == Overwrite(buf, r1.data)
        r2 == ReadExact(f, r1.pos, 1)
        version == r2.data[1]
        r3 == ReadExact(f, r2.pos, SALT_LEN)
        b3 == Overwrite(b1, r3.data)
        salt == SubSeq(b3, 1, SALT_LEN)
        c0 == CryptoNew(sec, salt)
        size_len == 8 + TAG_LEN
        r4 == ReadExact(f, r3.pos, size_len)
        b4 == Overwrite(b3, r4.data)
        d == CryptoDecrypt(c0, SubSeq(b4, 1, size_len))
        b5 == Overwrite(b4, d.buf)
        len == ReadU64BE(SubSeq(b5, 1, 8))
    IN  IF ~r1.ok THEN fail("UnexpectedEof", b1, NoCrypto, r1.pos)
        ELSE IF \E i \in 1..Len(MAGIC) : ~IsByte(b1[i], MAGIC[i])
        THEN fail("magic not match", b1, NoCrypto, r1.pos)
        ELSE IF ~r2.ok THEN fail("UnexpectedEof", b1, NoCrypto, r2.pos)
        ELSE IF ~IsByte(version, VERSION_2)
        THEN fail("version not support", b1, NoCrypto, r2.pos)
        ELSE IF ~r3.ok THEN fail("UnexpectedEof", b3, NoCrypto, r3.pos)
        ELSE IF IsByte(version, VERSION_2)
        THEN IF ~r4.ok THEN fail("UnexpectedEof", b4, c0, r4.pos)
             ELSE IF ~d.ok THEN fail("Open", b4, c0, r4.pos)
             ELSE IF ~SizeMatches(len, Len(f))
             THEN fail("file size not match", b5, d.crypto, r4.pos)
             ELSE [result |-> "", buffer |-> b5, crypto |-> d.crypto,
                   rpos |-> r4.pos, size |-> Len(f) - V2_HEADER_LEN]
        ELSE [result |-> "", buffer |-> b3, crypto |-> c0, rpos |-> r3.pos,
              size |-> Len(f) - V1_HEADER_LEN]

\* FileCrypt::decrypt up to the loop, as a function of the source file f:
\* magic, version, salt, engine, size record, header length.
DecryptHeader(f, sec, buf) ==
    LET fail(e, b, c, pos) ==
            [result |-> e, buffer |-> b, crypto |-> c, rpos |-> pos,
             size |-> Len(f)]
        r1 == ReadExact(f, 0, Len(MAGIC))
        b1 == Overwrite(buf, r1.data)
        r2 == ReadExact(f, r1.pos, 1)
        version == r2.data[1]
        r3 == ReadExact(f, r2.pos, SALT_LEN)
        b3 == Overwrite(b1, r3.data)
        salt == SubSeq(b3, 1, SALT_LEN)
        c0 == CryptoNew(sec, salt)
        size_len == 8 + TAG_LEN
        r4 == ReadExact(f, r3.pos, size_len)
        b4 == Overwrite(b3, r4.data)
        d == CryptoDecrypt(c0, SubSeq(b4, 1, size_len))
        b5 == Overwrite(b4, d.buf)
        len == ReadU64BE(SubSeq(b5, 1, 8))
    IN  IF ~r1.ok THEN fail("UnexpectedEof", b1, NoCrypto, r1.pos)
        ELSE IF \E i \in 1..Len(MAGIC) : ~IsByte(b1[i], MAGIC[i])
        THEN fail("magic not match", b1, NoCrypto, r1.pos)
        ELSE IF ~r2.ok THEN fail("UnexpectedEof", b1, NoCrypto, r2.pos)
        ELSE IF ~IsByte(version, VERSION_1) /\ ~IsByte(version, VERSION_2)
        THEN fail("version not support", b1, NoCrypto, r2.pos)
        ELSE IF ~r3.ok THEN fail("UnexpectedEof", b3, NoCrypto, r3.pos)
        ELSE IF IsByte(version, VERSION_2)
        THEN IF ~r4.ok THEN fail("UnexpectedEof", b4, c0, r4.pos)
             ELSE IF ~d.ok THEN fail("Open", b4, c0, r4.pos)
             ELSE IF ~SizeMatches(len, Len(f))
             THEN fail("file size not match", b5, d.crypto, r4.pos)
             ELSE [result |-> "", buffer |-> b5, crypto |-> d.crypto,
                   rpos |-> r4.pos, size |-> Len(f) - V2_HEADER_LEN]
        ELSE [result |-> "", buffer |-> b3, crypto |-> c0, rpos |-> r3.pos,
              size |-> Len(f) - V1_HEADER_LEN]

DecryptBegin ==
    /\ pc = "dec_start"
    /\ LET h == DecryptHeader(src, secret, buffer)
       IN  /\ dest' = <<>>
           /\ buffer' = h.buffer
           /\ crypto' = h.crypto
           /\ rpos' = h.rpos
           /\ size' = h.size
           /\ result' = h.result
           /\ pc' = IF h.result = "" THEN "dec_loop" ELSE "dec_done"
    /\ UNCHANGED <<secret, src, plain, enc_secret, container, dest_size,
                   frames, tamper, nvars, cvars, ncalls, tvars>>

\* one turn of the loop that writes the buffer out whether or not it opened
DecryptBlockUnverified ==
    /\ pc = "dec_loop"
    /\ LET r == ReadExact(src, rpos, Len(buffer))
           buf1 == Overwrite(buffer, r.data)
           d == CryptoDecrypt(crypto, buf1)
       IN  /\ r.ok
           /\ rpos' = r.pos
           /\ buffer' = d.buf
           /\ crypto' = d.crypto
           /\ dest' = dest \o SubSeq(d.buf, 1, Len(buf1) - TAG_LEN)
           /\ IF d.ok
              THEN /\ size' = size - Len(buffer)
                   /\ UNCHANGED <<pc, result>>
              ELSE /\ pc' = "dec_done" /\ result' = d.err
                   /\ UNCHANGED size
    /\ UNCHANGED <<secret, src, plain, enc_secret, container, dest_size,
                   frames, tamper, nvars, cvars, ncalls, tvars>>

\* one turn of the loop, read_exact of a whole buffer succeeded
DecryptBlock ==
    /\ pc = "dec_loop"
    /\ LET r == ReadExact(src, rpos, Len(buffer))
           buf1 == Overwrite(buffer, r.data)
           d == CryptoDecrypt(crypto, buf1)
       IN  /\ r.ok
           /\ rpos' = r.pos
           /\ buffer' = d.buf
           /\ crypto' = d.crypto
           /\ IF d.ok
              THEN /\ dest' = dest \o SubSeq(d.buf, 1, d.len)
                   /\ size' = size - Len(buffer)
                   /\ UNCHANGED <<pc, result>>
              ELSE /\ pc' = "dec_done" /\ result' = d.err
                   /\ UNCHANGED <<dest, size>>
    /\ UNCHANGED <<secret, src, plain, enc_secret, container, dest_size,
                   frames, tamper, nvars, cvars, ncalls, tvars>>

\* the last turn with the remaining bytes dropped instead of opened
DecryptLastSkip ==
    /\ pc = "dec_loop"
    /\ LET r == ReadExact(src, rpos, Len(buffer))
       IN  /\ ~r.ok
           /\ rpos' = r.pos
           /\ buffer' = Overwrite(buffer, r.data)
           /\ result' = "ok"
           /\ pc' = "dec_done"
    /\ UNCHANGED <<secret, src, size, crypto, dest, plain, enc_secret,
                   container, dest_size, frames, tamper, nvars, cvars, ncalls, tvars>>

\* the last turn of the loop, read_exact met the end of the file
DecryptLast ==
    /\ pc = "dec_loop"
    /\ LET r == ReadExact(src, rpos, Len(buffer))
           buf1 == Overwrite(buffer, r.data)
           d == CryptoDecrypt(crypto, SubSeq(buf1, 1, size))
       IN  /\ ~r.ok
           /\ rpos' = r.pos
           /\ IF size # 0
              THEN /\ buffer' = Overwrite(buf1, d.buf)
                   /\ crypto' = d.crypto
                   /\ IF d.ok
                      THEN /\ dest' = dest \o SubSeq(d.buf, 1, d.len)
                           /\ result' = "ok"
                      ELSE /\ result' = d.err
                           /\ UNCHANGED dest
              ELSE /\ buffer' = buf1
                   /\ result' = "ok"
                   /\ UNCHANGED <<crypto, dest>>
           /\ pc' = "dec_done"
    /\ UNCHANGED <<secret, src, size, plain, enc_secret, container, dest_size,
                   frames, tamper, nvars, cvars, ncalls, tvars>>

Next ==
    \/ EncryptBegin
    \/ EncryptBlock
    \/ EncryptLast
    \/ Present
    \/ EncryptAgain
    \/ DecryptBegin
    \/ DecryptBlock
    \/ DecryptLast

vars == <<nvars, cvars, fvars, tvars>>

Spec == Init /\ [][Next]_vars

\* ------------------------------------------------------------ properties
Decrypted == pc = "dec_done"
Decrypting == pc \in {"dec_loop", "dec_done"}
RightSecret == secret = enc_secret

\* buffers the call's engine has opened so far
Opened == IF crypto = NoCrypto THEN 0 ELSE LEValue(crypto.open_nonce, 1)

NumFrames(n) == n \div BLOCK_SIZE + (IF n % BLOCK_SIZE # 0 THEN 1 ELSE 0)

\* C1: encrypt with S, then decrypt of the produced container with S,
\* succeeds and writes exactly the plaintext, for lengths 0, below BS, k*BS
\* and k*BS+r.
C1_RoundTrip ==
    /\ pc = "enc_done" => result = "ok"
    /\ (Decrypted /\ tamper.kind = "none" /\ RightSecret) =>
          result = "ok" /\ dest = plain

C1_Witness ==
    /\ Decrypted /\ tamper.kind = "none" /\ RightSecret
    /\ Len(plain) = MaxBlocks * BLOCK_SIZE + 1
    /\ result = "ok" /\ dest = plain

\* C2 as claimed: decrypt of every proper prefix C[:k] of a container fails
\* with the size-mismatch error or with Open, also for k below the header
\* length.
C2_TruncationSizeOrOpen ==
    (Decrypted /\ tamper.kind = "trunc") =>
        result \in {"file size not match", "Open"}

\* C2 amended: decrypt of every proper prefix C[:k] fails and writes nothing:
\* with the size-mismatch error when k >= 62 (the size record is whole), with
\* the UnexpectedEof error of read_exact when k < 62.
C2_TruncationRejected ==
    /\ (Decrypted /\ tamper.kind = "trunc") =>
          /\ result = IF tamper.k >= V2_HEADER_LEN
                      THEN "file size not match" ELSE "UnexpectedEof"
          /\ dest = <<>>
    /\ pc = "dec_loop" => tamper.kind # "trunc"

C2_Witness ==
    /\ Decrypted /\ tamper.kind = "trunc"
    /\ tamper.k = V2_HEADER_LEN - 1
    /\ result = "UnexpectedEof"

\* C3: a container whose VERSION byte was rewritten to 0x01, alone or
\* together with a truncation, is never decrypted successfully.
C3_VersionConfusionRejected ==
    (Decrypted /\ tamper.kind = "v1") => result # "ok"

\* C4 as claimed: no plaintext is written to the destination before the size
\* record and the tag of every body frame have been verified.
C4_NothingWrittenBeforeAllVerified ==
    (Decrypting /\ Len(dest) > 0) => (rpos = Len(src) /\ result # "Open")

\* the body frame of a V2 container that position p lies in
FrameAt(p) == (p - V2_HEADER_LEN - 1) \div (BLOCK_SIZE + TAG_LEN) + 1

\* the input of decrypt says VERSION 0x02
InputV2 == Len(src) >= VERSION_POS /\ IsByte(src[VERSION_POS], VERSION_2)

\* opens that decrypt does before the body: the size record of a V2 input
HeaderOpens == IF InputV2 THEN 1 ELSE 0

\* C4 amended: decrypt writes no plaintext before the size record (of a V2
\* input) has been verified, and the plaintext of a frame only after the
\* tag of that frame and of every earlier frame has been verified; later
\* frames are not verified first: when frame j of a V2 container fails
\* authentication, exactly the plaintext of frames 1..j-1 has been written.
C4_WrittenOnlyAfterOwnFrameVerified ==
    /\ (Decrypting /\ Len(dest) > 0) =>
          /\ Opened >= HeaderOpens + 1
          /\ Len(dest) <= (Opened - HeaderOpens) * BLOCK_SIZE
          /\ InputV2 => dest = SubSeq(plain, 1, Len(dest))
    /\ (Decrypted /\ tamper.kind = "alter" /\ tamper.p > V2_HEADER_LEN) =>
          /\ result = "Open"
          /\ Opened = FrameAt(tamper.p)
          /\ dest = SubSeq(plain, 1, (FrameAt(tamper.p) - 1) * BLOCK_SIZE)

\* the second frame failed after the first had been written
C4_Witness ==
    /\ Decrypted /\ tamper.kind = "alter" /\ FrameAt(tamper.p) = 2
    /\ result = "Open"
    /\ Len(dest) = BLOCK_SIZE

\* C5: decrypt of an unmodified container with another secret fails with
\* Open at the size record: no body frame is read or opened, nothing is
\* written.
C5_WrongSecretOpenAtSizeRecord ==
    /\ (Decrypted /\ tamper.kind = "none" /\ ~RightSecret) =>
          /\ result = "Open"
          /\ rpos = V2_HEADER_LEN
          /\ Opened = 0
          /\ dest = <<>>
    /\ pc = "dec_loop" => (tamper.kind = "none" => RightSecret)

C5_Witness ==
    /\ Decrypted /\ tamper.kind = "none" /\ ~RightSecret
    /\ Len(plain) > BLOCK_SIZE
    /\ result = "Open"

\* C6: a container with one altered byte (in MAGIC, VERSION, SALT, SIZE_REC
\* or a body frame) is rejected with an error; decrypt never succeeds on it
\* with a destination that differs from the plaintext.
C6_AlteredByteRejected ==
    (Decrypted /\ tamper.kind = "alter") => result # "ok"

\* C7: the value sealed into SIZE_REC is the number of bytes encrypt writes,
\* 62 + n + ceil(n/BS)*16 (62 for n = 0), so the size check of decrypt passes
\* on every unmodified container.
C7_SizeRecordIsFileLength ==
    /\ pc \in {"enc_done", "dec_start", "dec_loop", "dec_done"} =>
          LET n == Len(plain)
              rec == SubSeq(container, V1_HEADER_LEN + 1, V2_HEADER_LEN)
          IN  /\ dest_size = Len(container)
              /\ dest_size = 62 + n + NumFrames(n) * 16
              /\ n = 0 => dest_size = 62
              /\ open_plain(rec) = Bytes(WriteU64BE(Len(container)))
              /\ ReadU64BE(open_plain(rec)) = Len(container)
    /\ (Decrypted /\ tamper.kind = "none" /\ RightSecret) =>
          result # "file size not match"

C7_Witness ==
    /\ Decrypted /\ tamper.kind = "none" /\ RightSecret
    /\ Len(plain) = MaxBlocks * BLOCK_SIZE
    /\ dest_size = Len(container)
    /\ result = "ok"

\* C8: encrypt writes floor(n/BS) frames of BS+16 bytes and then, only when
\* n mod BS # 0, one frame of (n mod BS)+16 bytes; no tag-only frame when n
\* is a multiple of BS.
C8_FrameLengths ==
    pc \in {"enc_done", "dec_start", "dec_loop", "dec_done"} =>
        LET n == Len(plain)
        IN  /\ frames = [j \in 1..NumFrames(n) |->
                            IF j <= n \div BLOCK_SIZE
                            THEN BLOCK_SIZE + TAG_LEN
                            ELSE (n % BLOCK_SIZE) + TAG_LEN]
            /\ Len(container) = V2_HEADER_LEN + SumTo(frames, Len(frames))

C8_Witness ==
    /\ pc = "enc_done"
    /\ Len(plain) = BLOCK_SIZE
    /\ frames = <<BLOCK_SIZE + TAG_LEN>>

\* a container with two body frames exchanged is refused with Open
SwappedFramesRejected ==
    (Decrypted /\ tamper.kind = "swap") => result = "Open"

\* ------------------------------------------------------------------ C20
\* the first 5 bytes of the input are there and are not MAGIC
MagicDiffers ==
    /\ Len(src) >= Len(MAGIC)
    /\ \E i \in 1..Len(MAGIC) : ~IsByte(src[i], MAGIC[i])

\* MAGIC is right and the VERSION byte is there and is neither 0x01 nor 0x02
VersionUnknown ==
    /\ Len(src) >= VERSION_POS
    /\ \A i \in 1..Len(MAGIC) : IsByte(src[i], MAGIC[i])
    /\ ~IsByte(src[VERSION_POS], VERSION_1)
    /\ ~IsByte(src[VERSION_POS], VERSION_2)

\* C20: decrypt checks MAGIC, then VERSION, then reads SALT, then opens
\* SIZE_REC: an input whose first 5 bytes are not MAGIC fails with "magic
\* not match" whatever follows, an input with the right MAGIC and a VERSION
\* outside {1, 2} fails with "version not support" whatever follows; in
\* both cases no engine has been made (no key derived, nothing opened),
\* nothing is written, and nothing after MAGIC resp. VERSION has been read.
C20_HeaderCheckOrder ==
    Decrypted =>
        /\ MagicDiffers =>
               /\ result = "magic not match"
               /\ crypto = NoCrypto /\ dest = <<>>
               /\ rpos = Len(MAGIC)
        /\ VersionUnknown =>
               /\ result = "version not support"
               /\ crypto = NoCrypto /\ dest = <<>>
               /\ rpos = VERSION_POS
        /\ result \in {"magic not match", "version not support"} =>
               MagicDiffers \/ VersionUnknown

\* a container with both a MAGIC byte and the VERSION byte altered was
\* rejected for its MAGIC
C20_Witness ==
    /\ Decrypted
    /\ tamper.kind = "alter2" /\ tamper.p = 1 /\ tamper.q = VERSION_POS
    /\ result = "magic not match"

\* ------------------------------------------------------------------ C18
\* the buffer a cell of the output belongs to: 0 the size record, j frame j
BufferAt(p) == IF p <= V2_HEADER_LEN THEN 0 ELSE FrameAt(p)

\* C18: in one encrypt call the size record is sealed with nonce 0 and body
\* frame j with nonce j, all under the key of this call's salt, so no two
\* buffers of the call share a nonce; the engine of every encrypt call
\* starts at zero (after b buffers its seal counter is b, its open counter
\* 0) also when the FileCrypt has served a call before, and the engine of a
\* decrypt call has opened exactly the buffers read so far and sealed none.
C18_NoncePerBuffer ==
    /\ pc \in {"enc_loop", "enc_done"} =>
          LET key == DeriveKey(secret, SubSeq(dest, VERSION_POS + 1,
                                                   V1_HEADER_LEN))
              ct == (V1_HEADER_LEN + 1)..Len(dest)
          IN  /\ \A p \in ct :
                    /\ dest[p].t = "c"
                    /\ dest[p].sid[1] = key
                    /\ dest[p].sid[2] = LEBytes(BufferAt(p), NONCE_LEN)
              /\ \A p, q \in ct :
                    dest[p].sid[2] = dest[q].sid[2] =>
                        BufferAt(p) = BufferAt(q)
              /\ crypto.seal_nonce =
                    LEBytes(1 + BufferAt(Len(dest)), NONCE_LEN)
              /\ crypto.open_nonce = Zeros(NONCE_LEN)
    /\ (pc = "dec_loop" \/ (Decrypted /\ result = "ok")) =>
          /\ crypto.seal_nonce = Zeros(NONCE_LEN)
          /\ Opened = HeaderOpens + NumFrames(Len(dest))

\* the second encrypt call of one FileCrypt has sealed two frames
C18_Witness ==
    /\ ncalls = 1 /\ pc = "enc_done" /\ result = "ok"
    /\ Len(frames) = 2
    /\ crypto.seal_nonce = LEBytes(3, NONCE_LEN)
    /\ dest[Len(dest)].sid[2] = LEBytes(2, NONCE_LEN)

\* ============================================================ SpecTask
\* main.rs, cli.rs command_crypt and task.rs TaskRuner: one run of the
\* program over a list of source files, every file-system step of every
\* task a step of its own so that the workers of parallel_run interleave.
\* A path is a tuple of its components.  Sources that are directories are
\* not modelled; encrypt and decrypt differ for a task only in what can go
\* wrong inside, which is a choice here, so Mode is left out.
SrcFiles == {<<"a", "x">>, <<"b", "x">>, <<"a", "y">>}
DestArg == <<"out">>

\* tasks in one run
MaxTasks == 2

\* --parallel values of the runs: 0 is simple_run
Parallels == {0, 2}

\* the source files in the order glob lists them
SrcOrder == <<<<"a", "x">>, <<"b", "x">>, <<"a", "y">>>>

RECURSIVE Pick(_, _)
Pick(k, S) ==
    IF k > Len(SrcOrder) THEN <<>>
    ELSE (IF k \in S THEN <<SrcOrder[k]>> ELSE <<>>) \o Pick(k + 1, S)

\* what list_src_files may find: any of the files, at most MaxTasks
SrcLists ==
    {Pick(1, S) : S \in {T \in SUBSET (1..Len(SrcOrder)) :
                            Cardinality(T) <= MaxTasks}}

\* build_tasks for sources that are files: dest, or dest/filename(src)
build_tasks(files, dest_is_dir) ==
    [k \in 1..Len(files) |->
        [src |-> files[k],
         dest |-> IF dest_is_dir THEN DestArg \o <<files[k][Len(files[k])]>>
                  ELSE DestArg]]

DestsOf(ts) == {ts[k].dest : k \in 1..Len(ts)}

NoFile == [exists |-> FALSE, by |-> 0, done |-> FALSE]
\* a file that was there before the run
OldFile == [exists |-> TRUE, by |-> 0, done |-> TRUE]

\* a task no thread has taken yet
Queued ==
    [pc |-> "queued", err |-> "", runner |-> 0, saw_exists |-> FALSE,
     opened_src |-> FALSE, in_crypt |-> FALSE, touched |-> {}, left |-> FALSE]

\* docopt: [--skip | --overwrite], [-n], [--parallel=<N>]; dest_is_dir is
\* whether <dest> ends with the separator
ArgsSet ==
    {a \in [skip : BOOLEAN, overwrite : BOOLEAN, dryrun : BOOLEAN,
            parallel : Parallels, dest_is_dir : BOOLEAN] :
        ~(a.skip /\ a.overwrite)}

InitTask ==
    /\ args \in ArgsSet
    /\ srcs \in SrcLists
    /\ tasks = <<>>
    /\ tk = <<>>
    /\ \E pre \in SUBSET DestsOf(build_tasks(srcs, args.dest_is_dir)) :
          fs = [p \in SrcFiles \cup DestsOf(build_tasks(srcs, args.dest_is_dir))
                  |-> IF p \in SrcFiles \/ p \in pre THEN OldFile ELSE NoFile]
    /\ cache = <<>>
    /\ mainpc = "start"
    /\ exit_code = 0
    /\ env = FALSE
    /\ mode = "task" /\ nonce = <<>> /\ calls = 0 /\ engine = NoCrypto
    /\ crypto1 = NoCrypto /\ bufs = <<>> /\ last = [op |-> "none"]
    /\ FileIdle

ovars == <<nvars, cvars, fvars>>

NumThreads == args.parallel
Parallel == args.parallel # 0

\* main and command_crypt up to the start of the run: an error of
\* list_src_files or of input_password, no file found, several files for a
\* dest that is not a directory; else the tasks and the runner, and for
\* parallel_run the cache of num_threads clones of it
CommandCrypt ==
    /\ mainpc = "start"
    /\ \E pre \in {"ok", "list_err", "password_err"} :
          IF pre = "list_err"
          THEN /\ mainpc' = "exited" /\ exit_code' = 1
               /\ UNCHANGED <<tasks, tk, cache>>
          ELSE IF Len(srcs) = 0
          THEN /\ mainpc' = "exited" /\ exit_code' = 0
               /\ UNCHANGED <<tasks, tk, cache>>
          ELSE IF Len(srcs) > 1 /\ ~args.dest_is_dir
          THEN /\ mainpc' = "exited" /\ exit_code' = 1
               /\ UNCHANGED <<tasks, tk, cache>>
          ELSE IF pre = "password_err"
          THEN /\ mainpc' = "exited" /\ exit_code' = 1
               /\ tasks' = build_tasks(srcs, args.dest_is_dir)
               /\ UNCHANGED <<tk, cache>>
          ELSE /\ mainpc' = "running"
               /\ UNCHANGED exit_code
               /\ tasks' = build_tasks(srcs, args.dest_is_dir)
               /\ tk' = [k \in 1..Len(srcs) |-> Queued]
               /\ cache' = IF Parallel THEN [k \in 1..NumThreads |-> k]
                           ELSE <<>>
    /\ UNCHANGED <<args, srcs, fs, env, ovars>>

\* a task is in run_task
Active(i) == tk[i].pc \notin {"queued", "done", "panicked"}
Panicked == {i \in 1..Len(tk) : tk[i].pc = "panicked"}
Busy == {i \in 1..Len(tk) : Active(i)}

\* simple_run: the next turn of the for loop calls run_task on self
SimpleRunTask(i) ==
    /\ mainpc = "running" /\ ~Parallel
    /\ tk[i].pc = "queued"
    /\ \A j \in 1..(i - 1) : tk[j].pc = "done"
    /\ tk' = [tk EXCEPT ![i].pc = "check"]
    /\ UNCHANGED <<args, srcs, tasks, fs, cache, mainpc, exit_code, env, ovars>>

\* parallel_run: a pool thread that is free takes the next job in order
TakeJob(i) ==
    /\ mainpc = "running" /\ Parallel
    /\ tk[i].pc = "queued"
    /\ \A j \in 1..(i - 1) : tk[j].pc # "queued"
    /\ Cardinality(Busy) + Cardinality(Panicked) < NumThreads
    /\ tk' = [tk EXCEPT ![i].pc = "pop"]
    /\ UNCHANGED <<args, srcs, tasks, fs, cache, mainpc, exit_code, env, ovars>>

\* a pop that hands out the head of the queue and leaves it there
CachePopPeek(i) ==
    /\ tk[i].pc = "pop"
    /\ cache # <<>>
    /\ tk' = [tk EXCEPT ![i].pc = "check", ![i].runner = Head(cache)]
    /\ UNCHANGED <<args, srcs, tasks, fs, cache, mainpc, exit_code, env, ovars>>

\* let mut this = cache.pop(): waits while the queue is empty
CachePop(i) ==
    /\ tk[i].pc = "pop"
    /\ cache # <<>>
    /\ tk' = [tk EXCEPT ![i].pc = "check", ![i].runner = Head(cache)]
    /\ cache' = Tail(cache)
    /\ UNCHANGED <<args, srcs, tasks, fs, mainpc, exit_code, env, ovars>>

\* run_task and do_task with the failure cleanup run for every error
CheckCleanupAlways(i) ==
    /\ tk[i].pc = "check"
    /\ LET t == tasks[i]
           fail(e, saw) == [tk EXCEPT ![i].pc = "isfile", ![i].err = e,
                                      ![i].saw_exists = saw]
       IN  tk' = IF args.dryrun THEN [tk EXCEPT ![i].pc = "return"]
                 ELSE IF ~fs[t.src].exists THEN fail("NotFile", FALSE)
                 ELSE IF fs[t.dest].exists /\ args.skip
                 THEN fail("Skip", TRUE)
                 ELSE IF fs[t.dest].exists /\ ~args.overwrite
                 THEN fail("Exists", TRUE)
                 ELSE [tk EXCEPT ![i].pc = "create",
                                 ![i].saw_exists = fs[t.dest].exists]
    /\ UNCHANGED <<args, srcs, tasks, fs, cache, mainpc, exit_code, env, ovars>>

\* run_task: dry run; do_task: src.is_file(), dest.exists() and the policy;
\* NotFile, Skip and Exists are not Error::Io, run_task only logs them
Check(i) ==
    /\ tk[i].pc = "check"
    /\ LET t == tasks[i]
           fail(e, saw) == [tk EXCEPT ![i].pc = "return", ![i].err = e,
                                      ![i].saw_exists = saw]
       IN  tk' = IF args.dryrun THEN [tk EXCEPT ![i].pc = "return"]
                 ELSE IF ~fs[t.src].exists THEN fail("NotFile", FALSE)
                 ELSE IF fs[t.dest].exists /\ args.skip
                 THEN fail("Skip", TRUE)
                 ELSE IF fs[t.dest].exists /\ ~args.overwrite
                 THEN fail("Exists", TRUE)
                 ELSE [tk EXCEPT ![i].pc = "create",
                                 ![i].saw_exists = fs[t.dest].exists]
    /\ UNCHANGED <<args, srcs, tasks, fs, cache, mainpc, exit_code, env, ovars>>

\* do_task: create_dir_all, then encrypt or decrypt up to File::create(dest).
\* create_dir_all may fail; File::open(src) fails when src is gone;
\* File::create may fail; else dest is there and empty.
Create(i) ==
    /\ tk[i].pc = "create"
    /\ LET t == tasks[i]
       IN  \E out \in {"dir_err", "create_err", "ok"} :
              IF out = "dir_err"
              THEN /\ tk' = [tk EXCEPT ![i].pc = "isfile", ![i].err = "Io"]
                   /\ UNCHANGED fs
              ELSE IF ~fs[t.src].exists
              THEN /\ tk' = [tk EXCEPT ![i].pc = "isfile", ![i].err = "Io",
                                       ![i].in_crypt = TRUE]
                   /\ UNCHANGED fs
              ELSE IF out = "create_err"
              THEN /\ tk' = [tk EXCEPT ![i].pc = "isfile", ![i].err = "Io",
                                       ![i].in_crypt = TRUE,
                                       ![i].opened_src = TRUE]
                   /\ UNCHANGED fs
              ELSE /\ tk' = [tk EXCEPT ![i].pc = "body",
                                       ![i].in_crypt = TRUE,
                                       ![i].opened_src = TRUE,
                                       ![i].touched = @ \cup {"create"}]
                   /\ fs' = [fs EXCEPT ![t.dest] =
                                [exists |-> TRUE, by |-> i, done |-> FALSE]]
    /\ UNCHANGED <<args, srcs, tasks, cache, mainpc, exit_code, env, ovars>>

\* the rest of encrypt or decrypt: header and frames written through the
\* open file; it ends Ok(()) or with an io::Error (read or write error,
\* magic, version, size, Open)
Body(i) ==
    /\ tk[i].pc = "body"
    /\ LET t == tasks[i]
           mine == fs[t.dest].exists /\ fs[t.dest].by = i
       IN  \E ok \in BOOLEAN :
              /\ tk' = [tk EXCEPT ![i].pc = IF ok THEN "return" ELSE "isfile",
                                  ![i].err = IF ok THEN "" ELSE "Io",
                                  ![i].touched = @ \cup {"write"}]
              /\ fs' = IF ok /\ mine
                       THEN [fs EXCEPT ![t.dest].done = TRUE]
                       ELSE fs
    /\ UNCHANGED <<args, srcs, tasks, cache, mainpc, exit_code, env, ovars>>

\* run_task, Err(Error::Io(_)): if task.dest.is_file()
IsFile(i) ==
    /\ tk[i].pc = "isfile"
    /\ tk' = [tk EXCEPT ![i].pc = IF fs[tasks[i].dest].exists
                                  THEN "remove" ELSE "return"]
    /\ UNCHANGED <<args, srcs, tasks, fs, cache, mainpc, exit_code, env, ovars>>

\* fs::remove_file(&task.dest).unwrap(): unlinks, or panics when the file
\* is not there any more; the panic unwinds the thread, the runner is
\* dropped
Remove(i) ==
    /\ tk[i].pc = "remove"
    /\ IF fs[tasks[i].dest].exists
       THEN /\ fs' = [fs EXCEPT ![tasks[i].dest] = NoFile]
            /\ tk' = [tk EXCEPT ![i].pc = "return",
                                ![i].touched =
                                    @ \cup {"delete"}
                                      \cup IF fs[tasks[i].dest].by \in {0, i}
                                           THEN {}
                                           ELSE {"delete_other"}]
       ELSE /\ tk' = [tk EXCEPT ![i].pc = "panicked"]
            /\ UNCHANGED fs
    /\ UNCHANGED <<args, srcs, tasks, cache, mainpc, exit_code, env, ovars>>

\* run_task returns; in parallel_run: cache.push(this)
Return(i) ==
    /\ tk[i].pc = "return"
    /\ tk' = [tk EXCEPT ![i].pc = "done",
                        ![i].left = fs[tasks[i].dest].exists]
    /\ cache' = IF Parallel THEN Append(cache, tk[i].runner) ELSE cache
    /\ UNCHANGED <<args, srcs, tasks, fs, mainpc, exit_code, env, ovars>>

\* the run is over: command_crypt returns Ok(()) and main ends with 0; a
\* panic of run_task in simple_run, or of a worker (pool.scoped panics in
\* the main thread once the workers are joined), ends the process with 101
MainEnd ==
    /\ mainpc = "running"
    /\ IF Parallel
       THEN /\ Busy = {}
            /\ \/ \A i \in 1..Len(tk) : tk[i].pc # "queued"
               \/ Cardinality(Panicked) >= NumThreads
       ELSE \/ \A i \in 1..Len(tk) : tk[i].pc = "done"
            \/ Panicked # {}
    /\ mainpc' = "exited"
    /\ exit_code' = IF Panicked # {} THEN 101 ELSE 0
    /\ UNCHANGED <<args, srcs, tasks, fs, tk, cache, env, ovars>>

\* another process removes a file while the run goes on, once
EnvRemove ==
    /\ mainpc = "running"
    /\ ~env
    /\ \E p \in DOMAIN fs :
          /\ fs[p].exists
          /\ fs' = [fs EXCEPT ![p] = NoFile]
    /\ env' = TRUE
    /\ UNCHANGED <<args, srcs, tasks, tk, cache, mainpc, exit_code, ovars>>

NextTask ==
    \/ CommandCrypt
    \/ \E i \in 1..Len(tk) : SimpleRunTask(i)
    \/ \E i \in 1..Len(tk) : TakeJob(i)
    \/ \E i \in 1..Len(tk) : CachePop(i)
    \/ \E i \in 1..Len(tk) : Check(i)
    \/ \E i \in 1..Len(tk) : Create(i)
    \/ \E i \in 1..Len(tk) : Body(i)
    \/ \E i \in 1..Len(tk) : IsFile(i)
    \/ \E i \in 1..Len(tk) : Remove(i)
    \/ \E i \in 1..Len(tk) : Return(i)
    \/ MainEnd
    \/ EnvRemove

SpecTask == InitTask /\ [][NextTask]_vars

\* the task holds a runner: it is between cache.pop and cache.push, or, in
\* simple_run, inside run_task
Holds(i) == tk[i].pc \in {"check", "create", "body", "isfile", "remove", "return"}

\* ------------------------------------------------------------------ C13
\* C13: a task that found its destination existing fails with Skip when
\* skip is selected and with Exists when neither skip nor overwrite is; it
\* has then not opened the source and has not created, truncated, written
\* or deleted the destination, and goes on to return without cleanup.
C13_DestExistsPolicy ==
    \A i \in 1..Len(tk) :
        (tk[i].saw_exists /\ ~args.overwrite) =>
            /\ tk[i].err = IF args.skip THEN "Skip" ELSE "Exists"
            /\ ~tk[i].opened_src
            /\ tk[i].touched = {}
            /\ tk[i].pc \in {"return", "done"}

\* a task has returned with Exists for a destination another task of the
\* run had created, and that destination is still there
C13_Witness ==
    \E i \in 1..Len(tk) :
        /\ tk[i].pc = "done" /\ tk[i].err = "Exists"
        /\ fs[tasks[i].dest].exists
        /\ fs[tasks[i].dest].by \notin {0, i}

\* ------------------------------------------------------------------ C14
\* C14 as stated: whenever encrypt or decrypt returned an error for a task,
\* the destination of the task is not there when its run_task returns.
C14_FailedTaskLeavesNoDest ==
    \A i \in 1..Len(tk) :
        (tk[i].pc = "done" /\ tk[i].err = "Io" /\ tk[i].in_crypt) =>
            ~tk[i].left

\* ------------------------------------------------------------------ C15
\* C15: no runner is held by two tasks at once, and a runner that is held
\* is not in the cache: between pop and push it belongs to one thread.
C15_RunnerHeldByOneThread ==
    \A i \in 1..Len(tk) :
        Holds(i) =>
            /\ \A j \in 1..Len(tk) :
                  (j # i /\ Holds(j)) => tk[j].runner # tk[i].runner
            /\ \A k \in 1..Len(cache) : cache[k] # tk[i].runner

\* two workers are inside encrypt or decrypt at once, each with its runner,
\* and the cache is empty
C15_Witness ==
    /\ Len(tk) >= 2
    /\ tk[1].pc = "body" /\ tk[2].pc = "body"
    /\ tk[1].runner = 2 /\ tk[2].runner = 1
    /\ cache = <<>>

\* ------------------------------------------------------------------ C16
\* a task failed: do_task returned an error, or run_task panicked
Failed(i) == tk[i].err # "" \/ tk[i].pc = "panicked"

\* C16 as stated: the exit code is 0 only when every task completed, and 1
\* when any error occurred, an error of a single task included.
C16_ExitCodeReflectsErrors ==
    mainpc = "exited" =>
        /\ exit_code = 0 =>
              \A i \in 1..Len(tk) : tk[i].pc = "done" /\ ~Failed(i)
        /\ (\E i \in 1..Len(tk) : Failed(i)) => exit_code = 1

\* ------------------------------------------------------------------ C17
\* C17 as stated: run_task never panics, whatever the tasks and the
\* interleaving, and the process does not die of a panic.
C17_NoPanic ==
    /\ Panicked = {}
    /\ exit_code # 101

\* ------------------------------------------------------------------ C21
\* the input of decrypt is a version 1 container of plain, t.k frames short
InputV1(k) == tamper.kind = "asv1" /\ tamper.k = k

\* C21: encrypt writes VERSION 0x02 whatever the file; decrypt of a
\* version 1 container (38-byte header, frames sealed with nonces 0, 1, ...
\* right after it) succeeds, opens just the frames (no size record) and
\* writes the plaintexts of the frames one after the other.
C21_VersionHandling ==
    /\ pc \in {"enc_loop", "enc_done"} =>
          /\ IsByte(dest[VERSION_POS], VERSION_2)
          /\ \A p \in (V1_HEADER_LEN + 1)..Min(Len(dest), V2_HEADER_LEN) :
                dest[p].t = "c"
    /\ (Decrypted /\ InputV1(0)) =>
          /\ IsByte(src[VERSION_POS], VERSION_1)
          /\ Len(src) = V1_HEADER_LEN + SumTo(frames, Len(frames))
          /\ \A p \in (V1_HEADER_LEN + 1)..Len(src) :
                src[p].sid[2] =
                    LEBytes((p - V1_HEADER_LEN - 1)
                                \div (BLOCK_SIZE + TAG_LEN), NONCE_LEN)
          /\ result = "ok"
          /\ dest = plain
          /\ Opened = Len(frames)

\* a version 1 container of two frames, the second short, was decrypted
C21_Witness ==
    /\ Decrypted /\ InputV1(0)
    /\ Len(frames) = 2 /\ frames[2] < BLOCK_SIZE + TAG_LEN
    /\ result = "ok" /\ dest = plain /\ Len(dest) > BLOCK_SIZE

\* ------------------------------------------------------------------ C22
\* the last body frame of the container encrypt wrote was cut off
V2LastFrameCut ==
    /\ tamper.kind = "trunc"
    /\ Len(frames) >= 1
    /\ tamper.k = Len(container) - frames[Len(frames)]

\* C22: decrypt of a version 1 container whose final frame was removed
\* succeeds and writes the plaintext of the frames that are left; decrypt
\* of the version 2 container of the same plaintext with its final frame
\* removed fails and does so at the size record, before any frame.
C22_V1TruncationSilent ==
    /\ (Decrypted /\ InputV1(1)) =>
          /\ result = "ok"
          /\ dest = SubSeq(plain, 1,
                           Len(plain) - (frames[Len(frames)] - TAG_LEN))
          /\ Len(dest) < Len(plain)
    /\ (Decrypted /\ V2LastFrameCut /\ RightSecret) =>
          /\ result = "file size not match"
          /\ dest = <<>>

\* a version 1 container of two frames lost the second, and decrypt wrote
\* the first block as if it were the whole file
C22_Witness ==
    /\ Decrypted /\ InputV1(1)
    /\ Len(frames) = 2
    /\ result = "ok" /\ Len(dest) = BLOCK_SIZE /\ Len(plain) > BLOCK_SIZE

\* ------------------------------------------------------------------ C23
\* runners that a task holds
Held == {i \in 1..Len(tk) : Holds(i)}

\* C23 as stated: in parallel_run the runners in the queue and the runners
\* held by workers are always num_threads together, and when the run is
\* over every task has been run to its end.
C23_RunnersConservedAllRun ==
    Parallel =>
        /\ mainpc = "running" => Len(cache) + Cardinality(Held) = NumThreads
        /\ (mainpc = "exited" /\ tk # <<>>) =>
              \A i \in 1..Len(tk) : tk[i].pc = "done"

\* ------------------------------------------------------------------ C24
\* tasks i and j are different tasks for one destination
SameDest(i, j) == i # j /\ tasks[i].dest = tasks[j].dest

\* C24 as stated: in a parallel run with neither skip nor overwrite, of two
\* tasks with the same destination at most one passes the existence check
\* and creates or writes the destination, the other fails with Exists once
\* it has returned, and no cleanup removes a file another task wrote.
C24_OneTaskPerDest ==
    (Parallel /\ ~args.skip /\ ~args.overwrite) =>
        \A i, j \in 1..Len(tk) :
            SameDest(i, j) =>
                /\ ~(tk[i].touched # {} /\ tk[j].touched # {})
                /\ ~(tk[i].pc \in {"create", "body"}
                        /\ tk[j].pc \in {"create", "body"})
                /\ (tk[i].touched # {} /\ tk[j].pc = "done") =>
                      tk[j].err \in {"Exists", "NotFile"}
                /\ "delete_other" \notin tk[i].touched

====
